---- MODULE Spec2Model ----
(***************************************************************************)
(* Order transaction and notification subsystem.                           *)
(*                                                                         *)
(*   db/repository          pool, executeQuery, executeTransaction         *)
(*   services/order-service createOrder, getOrderById, updateOrderStatus,  *)
(*                          markOrderPaid, fulfillOrder, cancelOrder       *)
(*   services/notification-service  sendOrderConfirmation,                 *)
(*                          sendOrderCancellation, sendPasswordReset,      *)
(*                          sendWelcomeEmail, sendBulkNotifications        *)
(*                                                                         *)
(* Every `await` of the source is a suspension point, so every awaited     *)
(* call is one step of the calling process; the synchronous code that      *)
(* follows it (catch, finally, return) belongs to the same step.           *)
(*                                                                         *)
(* The database is PostgreSQL at read-committed: a statement reads and     *)
(* writes the committed tables, except inside a transaction block, whose   *)
(* writes stay private to the connection until COMMIT.  A statement that   *)
(* fails has no effect; a transaction block whose COMMIT or ROLLBACK       *)
(* fails is discarded by the server.                                       *)
(***************************************************************************)
EXTENDS Integers, Sequences, FiniteSets, TLC

\* ---------------------------------------------------------------- bounds
PoolMax     == 2   \* largest pool size configured (`max: 20` in the source, scaled down)
MaxFailures == 2   \* statements / notification calls that fail in one behaviour
MaxItems    == 2   \* items of one createOrder input
MaxOrders   == 2   \* order ids the requests address
MaxClock    == 1   \* values NOW() advances through
MaxRecipients == 5 \* longest `userIds` of one sendBulkNotifications call

\* The requests of one behaviour, numbered in the order they arrive; each calls
\* one operation.  Every race the properties are about is between two operations.
Procs    == {1, 2}
Conns    == 1..PoolMax
OrderIds == 1..MaxOrders
UserIds  == {1}
\* The items of the spec's example order, [(price 10, qty 2), (price 5, qty 3)],
\* repeated; createOrder inputs are its non-empty prefixes.
ItemKinds ==
  << [productId |-> 1, quantity |-> 2, price |-> 10],
     [productId |-> 2, quantity |-> 3, price |-> 5] >>
Basket(n) == [i \in 1..n |-> ItemKinds[((i - 1) % Len(ItemKinds)) + 1]]
ItemLists == { Basket(n) : n \in 1..MaxItems }
\* The `status` of a PUT /orders/:id/status body: the three statuses the code
\* itself writes, a string it never writes, and a missing one.
StatusInputs == {"pending", "paid", "fulfilled", "refunded", ""}
\* The callers of the Notification Dispatcher outside the Order Service.
Callers    == {1, 2}
Recipients == 1..MaxRecipients
\* The failures the delivery capability behind sendEmail can raise.
DeliveryErrors == {"sendEmail failed", "sendEmail timed out"}

\* ---------------------------------------------------------------- state
VARIABLES
  orders,       \* committed rows of table orders
  items,        \* committed rows of table order_items
  nextOrderId,  \* sequence behind orders.id
  nextItemId,   \* sequence behind order_items.id
  clock,        \* the value NOW() returned last
  txn,          \* per connection: its open transaction block and private writes
  poolSize,     \* the pool's configured `max`
  poolIdle,     \* connections of the pool that are not checked out
  held,         \* per process: the connections it has checked out
  pc,           \* per process: the await it is suspended at
  op,           \* per process: the operation in flight and its arguments
  order,        \* per process: createOrder's `order` / cancelOrder's `order`
  idx,          \* per process: position of createOrder's item loop
  err,          \* per process: the error caught by executeTransaction
  caught,       \* per process: the error caught by the operation's own catch block
  trace,        \* per process: statements and calls issued by the call in flight
  outcome,      \* per process: what the call returned or raised
  acquires,     \* per process: pool.connect() grants during the call in flight
  releases,     \* per process: client.release() calls during the call in flight
  everOrders,   \* ids of the order rows that were ever committed
  everItems,    \* the item rows that were ever committed
  cancelled,    \* ids whose cancelOrder completed for an order that existed
  delivered,    \* order ids whose confirmation was delivered
  failures,     \* failures injected so far
  nPc,          \* per dispatcher caller: the await its call is suspended at
  nOp,          \* per dispatcher caller: the dispatcher function it called
  nTrace,       \* per dispatcher caller: lookups and sends issued by its call
  nOutcome,     \* per dispatcher caller: what the call returned or raised
  bPc,          \* sendBulkNotifications: the await it is suspended at
  userIds,      \* sendBulkNotifications: its `userIds` argument
  task,         \* sendBulkNotifications: per recipient, the state of its promise
  sends,        \* sendBulkNotifications: per recipient, sendEmail calls made for it
  bTrace,       \* sendBulkNotifications: per recipient, lookups and sends completed
  report,       \* sendBulkNotifications: the counts it logged
  bOutcome      \* sendBulkNotifications: what the call returned or raised

dbVars   == <<orders, items, nextOrderId, nextItemId, clock, txn>>
notifyVars == <<nPc, nOp, nTrace, nOutcome>>
bulkVars == <<bPc, userIds, task, sends, bTrace, report, bOutcome>>
\* What no step of the Order Service changes: the pool's configuration and the
\* calls made to the Notification Dispatcher from outside the Order Service.
fixedVars == <<poolSize, notifyVars, bulkVars>>
poolVars == <<fixedVars, poolIdle, held, acquires, releases>>
callVars == <<op, order, idx, err, caught>>
histVars == <<everOrders, everItems, cancelled, delivered>>
\* What no direct call of the Notification Dispatcher changes.
serviceVars == <<dbVars, poolSize, poolIdle, held, acquires, releases, pc, callVars,
                 trace, outcome, histVars, failures>>
vars == <<dbVars, poolVars, pc, callVars, trace, outcome, histVars, failures>>

NoTxn  == [open |-> FALSE, orders |-> {}, items |-> {}]
NoOp   == [name |-> "none", userId |-> 0, items |-> <<>>, orderId |-> 0,
           status |-> "", existed |-> FALSE, afterCancel |-> FALSE]
NoOutcome == [kind |-> "none", value |-> {}, err |-> "none"]
NoReport == [successful |-> 0, failed |-> 0]

\* The database the process starts on: empty, or holding one order exactly as an
\* earlier createOrder(1, ItemKinds) left it (ids 1, status pending, total 35).
EmptyDb == [orders |-> {}, items |-> {}]
SeededDb ==
  [orders |-> { [id |-> 1, user_id |-> 1, status |-> "pending",
                 total_amount |-> 10 * 2 + 5 * 3,
                 created_at |-> 0, updated_at |-> 0, paid_at |-> {}] },
   items |-> { [id |-> i, order_id |-> 1, product_id |-> ItemKinds[i].productId,
                quantity |-> ItemKinds[i].quantity, price |-> ItemKinds[i].price]
               : i \in 1..Len(ItemKinds) }]

Init ==
  /\ \E db \in {EmptyDb, SeededDb} :
       /\ orders = db.orders /\ items = db.items
       /\ nextOrderId = Cardinality(db.orders) + 1
       /\ nextItemId = Cardinality(db.items) + 1
       /\ everOrders = {r.id : r \in db.orders}
       /\ everItems = db.items
  /\ clock = 0
  /\ txn = [c \in Conns |-> NoTxn]
  /\ poolSize \in {1, PoolMax}   \* a pool of one client, or of `max` clients
  /\ poolIdle = 1..poolSize
  /\ held = [p \in Procs |-> {}]
  /\ pc = [p \in Procs |-> "idle"]
  /\ op = [p \in Procs |-> NoOp]
  /\ order = [p \in Procs |-> {}]
  /\ idx = [p \in Procs |-> 0]
  /\ err = [p \in Procs |-> "none"]
  /\ caught = [p \in Procs |-> "none"]
  /\ trace = [p \in Procs |-> <<>>]
  /\ outcome = [p \in Procs |-> NoOutcome]
  /\ acquires = [p \in Procs |-> 0]
  /\ releases = [p \in Procs |-> 0]
  /\ cancelled = {} /\ delivered = {}
  /\ failures = 0
  /\ nPc = [c \in Callers |-> "idle"]
  /\ nOp = [c \in Callers |-> "none"]
  /\ nTrace = [c \in Callers |-> <<>>]
  /\ nOutcome = [c \in Callers |-> NoOutcome]
  /\ bPc = "idle"
  /\ userIds = <<>>
  /\ task = [i \in Recipients |-> "none"]
  /\ sends = [i \in Recipients |-> 0]
  /\ bTrace = [i \in Recipients |-> <<>>]
  /\ report = NoReport
  /\ bOutcome = NoOutcome

\* ---------------------------------------------------------------- helpers
\* A statement or notification call either succeeds or fails.
Results == IF failures < MaxFailures THEN {TRUE, FALSE} ELSE {TRUE}
Charge(ok) == failures' = IF ok THEN failures ELSE failures + 1

\* The values NOW() can return next: time never runs backwards.
Nows == {clock} \cup (IF clock < MaxClock THEN {clock + 1} ELSE {})

Log(p, s, ok) == trace' = [trace EXCEPT ![p] = Append(@, [stmt |-> s, ok |-> ok])]
Issued(p, s) == \E i \in 1..Len(trace[p]) : trace[p][i].stmt = s
Succeeded(p, s) == \E i \in 1..Len(trace[p]) : trace[p][i].stmt = s /\ trace[p][i].ok
Failed(p, s) == \E i \in 1..Len(trace[p]) : trace[p][i].stmt = s /\ ~trace[p][i].ok

Returned(v) == [kind |-> "returned", value |-> v, err |-> "none"]
Raised(e)   == [kind |-> "raised", value |-> {}, err |-> e]
\* The routing layer answered 400 without calling the Order Service.
Rejected(e) == [kind |-> "rejected", value |-> {}, err |-> e]

\* The connection a process works on (`client` in the source).
client(p) == CHOOSE c \in held[p] : TRUE

\* A request arrives: the routing layer calls one operation of the Order Service.
Begin(p, o) ==
  /\ pc[p] = "idle"
  /\ \A q \in Procs : q < p => pc[q] # "idle"
  /\ op' = [op EXCEPT ![p] = o]

\* ---------------------------------------------------------------- pool
\* Mutant: a pool without the `max` bound hands out a client that is checked out.
Grantable_unbounded == IF poolIdle # {} THEN poolIdle ELSE 1..poolSize

\* The connections pool.connect() may hand out: the pool creates at most
\* `max` clients and queues the callers beyond that.
Grantable == poolIdle

\* const client = await pool.connect()
pool_connect(p) ==
  /\ Grantable # {}
  /\ LET c == CHOOSE c \in Grantable : \A d \in Grantable : c <= d IN
       /\ poolIdle' = poolIdle \ {c}
       /\ held' = [held EXCEPT ![p] = @ \cup {c}]
  /\ acquires' = [acquires EXCEPT ![p] = @ + 1]
  /\ UNCHANGED <<fixedVars, releases>>

\* Mutant: no finally block, the client is never given back.
client_release_skipped(p) == UNCHANGED poolVars

\* Mutant: executeQuery has no finally block; only executeTransaction releases.
client_release_txOnly(p) ==
  IF pc[p] \in {"tx_commit", "tx_rollback"}
    THEN /\ poolIdle' = poolIdle \cup held[p]
         /\ held' = [held EXCEPT ![p] = {}]
         /\ releases' = [releases EXCEPT ![p] = @ + 1]
         /\ UNCHANGED <<fixedVars, acquires>>
    ELSE UNCHANGED poolVars

\* finally { client.release() }
client_release(p) ==
  /\ poolIdle' = poolIdle \cup held[p]
  /\ held' = [held EXCEPT ![p] = {}]
  /\ releases' = [releases EXCEPT ![p] = @ + 1]
  /\ UNCHANGED <<fixedVars, acquires>>

\* ---------------------------------------------------------------- database
\* The committed tables after COMMIT on connection c.
AfterCommit(c) ==
  [orders |-> orders \cup txn[c].orders, items |-> items \cup txn[c].items]

\* Mutant: the catch block ends the transaction with COMMIT.
AfterRollback_commits(c) == AfterCommit(c)

\* The committed tables after ROLLBACK on connection c.
AfterRollback(c) == [orders |-> orders, items |-> items]

\* Installs the committed tables and keeps the record of what was ever committed.
Install(t) ==
  /\ orders' = t.orders
  /\ items' = t.items
  /\ everOrders' = everOrders \cup {r.id : r \in t.orders}
  /\ everItems' = everItems \cup t.items

\* Mutant: the reducer forgets the quantity.
RECURSIVE reduce_priceOnly(_, _)
reduce_priceOnly(its, sum) ==
  IF its = <<>> THEN sum ELSE reduce_priceOnly(Tail(its), sum + Head(its).price)

\* input.items.reduce((sum, item) => sum + item.price * item.quantity, 0)
RECURSIVE reduce(_, _)
reduce(its, sum) ==
  IF its = <<>> THEN sum
  ELSE reduce(Tail(its), sum + Head(its).price * Head(its).quantity)

totalAmount(its) == reduce(its, 0)

\* ---------------------------------------------------------------- createOrder
\* createOrder(input): enters executeTransaction.
createOrder(p, userId, its) ==
  /\ Begin(p, [NoOp EXCEPT !.name = "createOrder", !.userId = userId, !.items = its])
  /\ pc' = [pc EXCEPT ![p] = "tx_connect"]
  /\ UNCHANGED <<dbVars, poolVars, order, idx, err, caught, trace, outcome, histVars, failures>>

\* executeTransaction: const client = await pool.connect()
tx_connect(p) ==
  /\ pc[p] = "tx_connect"
  /\ pool_connect(p)
  /\ pc' = [pc EXCEPT ![p] = "tx_begin"]
  /\ UNCHANGED <<dbVars, callVars, trace, outcome, histVars, failures>>

\* Mutant: the failure is swallowed and the transaction goes on to COMMIT.
Catch_continues(p, e) ==
  /\ err' = [err EXCEPT ![p] = e]
  /\ pc' = [pc EXCEPT ![p] = "tx_commit"]

\* executeTransaction: catch (error) { ... } entered with `error`
Catch(p, e) ==
  /\ err' = [err EXCEPT ![p] = e]
  /\ pc' = [pc EXCEPT ![p] = "tx_rollback"]

\* await client.query('BEGIN')
BEGIN(p, ok) ==
  /\ pc[p] = "tx_begin"
  /\ Charge(ok) /\ Log(p, "BEGIN", ok)
  /\ IF ok
       THEN /\ txn' = [txn EXCEPT ![client(p)].open = TRUE]
            /\ pc' = [pc EXCEPT ![p] = "tx_insert_order"]
            /\ UNCHANGED err
       ELSE /\ Catch(p, "BEGIN failed")
            /\ UNCHANGED txn
  /\ UNCHANGED <<orders, items, nextOrderId, nextItemId, clock, poolVars,
                 op, order, idx, caught, outcome, histVars>>

\* Mutant: the loop body runs once, whatever the number of items.
AfterItems_once(p, n) == "tx_notify_lookup"

\* Where createOrder's callback continues after the item loop.
AfterItems(p, n) == IF n > Len(op[p].items) THEN "tx_notify_lookup" ELSE "tx_insert_item"

\* INSERT INTO orders (user_id, status, total_amount) VALUES ($1, 'pending', $3) RETURNING *
insertOrder(p, ok, now) ==
  /\ pc[p] = "tx_insert_order"
  /\ Charge(ok) /\ Log(p, "INSERT orders", ok)
  /\ IF ok
       THEN LET row == [id |-> nextOrderId, user_id |-> op[p].userId,
                        status |-> "pending",
                        total_amount |-> totalAmount(op[p].items),
                        created_at |-> now, updated_at |-> now, paid_at |-> {}]
            IN /\ txn' = [txn EXCEPT ![client(p)].orders = @ \cup {row}]
               /\ nextOrderId' = nextOrderId + 1
               /\ clock' = now
               /\ order' = [order EXCEPT ![p] = {row}]
               /\ idx' = [idx EXCEPT ![p] = 1]
               /\ pc' = [pc EXCEPT ![p] = AfterItems(p, 1)]
               /\ UNCHANGED err
       ELSE /\ Catch(p, "INSERT orders failed")
            /\ UNCHANGED <<txn, nextOrderId, clock, order, idx>>
  /\ UNCHANGED <<orders, items, nextItemId, poolVars, op, caught, outcome, histVars>>

\* for (const item of input.items) await client.query(INSERT INTO order_items ...)
insertOrderItem(p, ok) ==
  /\ pc[p] = "tx_insert_item"
  /\ Charge(ok) /\ Log(p, "INSERT order_items", ok)
  /\ IF ok
       THEN LET item == op[p].items[idx[p]]
                o == CHOOSE o \in order[p] : TRUE
                row == [id |-> nextItemId, order_id |-> o.id,
                        product_id |-> item.productId,
                        quantity |-> item.quantity, price |-> item.price]
            IN /\ txn' = [txn EXCEPT ![client(p)].items = @ \cup {row}]
               /\ nextItemId' = nextItemId + 1
               /\ idx' = [idx EXCEPT ![p] = @ + 1]
               /\ pc' = [pc EXCEPT ![p] = AfterItems(p, idx[p] + 1)]
               /\ UNCHANGED err
       ELSE /\ Catch(p, "INSERT order_items failed")
            /\ UNCHANGED <<txn, nextItemId, idx>>
  /\ UNCHANGED <<orders, items, nextOrderId, clock, poolVars, op, order, caught,
                 outcome, histVars>>

\* The error an order operation's catch block received.
Caught(p, e) == caught' = [caught EXCEPT ![p] = e]

\* Mutant: the catch block of sendOrderConfirmation rethrows what it caught.
sendOrderConfirmation_rethrows(e) == e

\* sendOrderConfirmation: catch (error) { throw new Error('Failed to send order confirmation') }
sendOrderConfirmation_catch(e) == "Failed to send order confirmation"

\* sendOrderCancellation: catch (err) { throw new Error('Order cancellation notification failed') }
sendOrderCancellation_catch(e) == "Order cancellation notification failed"

\* Mutant: no try/catch around sendOrderConfirmation, its error fails the callback.
confirmation_catch_rethrows(p) == Catch(p, "Failed to send order confirmation")

\* createOrder: try { await sendOrderConfirmation(...) } catch (error) { logger.error }
\* The normalized error of sendOrderConfirmation is logged and the callback goes on.
confirmation_catch(p) ==
  /\ pc' = [pc EXCEPT ![p] = "tx_commit"]
  /\ UNCHANGED err

\* sendOrderConfirmation: const user = await fetchUserEmail(userId)
confirmation_fetchUserEmail(p, ok) ==
  /\ pc[p] = "tx_notify_lookup"
  /\ Charge(ok) /\ Log(p, "fetchUserEmail", ok)
  /\ IF ok
       THEN /\ pc' = [pc EXCEPT ![p] = "tx_notify_send"]
            /\ UNCHANGED <<err, caught>>
       ELSE /\ confirmation_catch(p)
            /\ Caught(p, sendOrderConfirmation_catch("fetchUserEmail failed"))
  /\ UNCHANGED <<dbVars, poolVars, op, order, idx, outcome, histVars>>

\* sendOrderConfirmation: await sendEmail({...})
confirmation_sendEmail(p, ok) ==
  /\ pc[p] = "tx_notify_send"
  /\ Charge(ok) /\ Log(p, "sendEmail", ok)
  /\ IF ok
       THEN /\ delivered' = delivered \cup {o.id : o \in order[p]}
            /\ pc' = [pc EXCEPT ![p] = "tx_commit"]
            /\ UNCHANGED <<err, caught>>
       ELSE /\ confirmation_catch(p)
            /\ Caught(p, sendOrderConfirmation_catch("sendEmail failed"))
            /\ UNCHANGED delivered
  /\ UNCHANGED <<dbVars, poolVars, op, order, idx, outcome, everOrders, everItems,
                 cancelled>>

\* await client.query('COMMIT'); return result   (then finally)
COMMIT(p, ok) ==
  /\ pc[p] = "tx_commit"
  /\ Charge(ok) /\ Log(p, "COMMIT", ok)
  /\ IF ok
       THEN /\ Install(AfterCommit(client(p)))
            /\ txn' = [txn EXCEPT ![client(p)] = NoTxn]
            /\ client_release(p)
            /\ outcome' = [outcome EXCEPT ![p] = Returned(order[p])]
            /\ pc' = [pc EXCEPT ![p] = "done"]
            /\ UNCHANGED err
       ELSE /\ Catch(p, "COMMIT failed")
            /\ UNCHANGED <<orders, items, everOrders, everItems, txn, poolVars, outcome>>
  /\ UNCHANGED <<nextOrderId, nextItemId, clock, op, order, idx, caught, cancelled,
                 delivered>>

\* catch (error) { await client.query('ROLLBACK'); throw error; } finally { release }
ROLLBACK(p, ok) ==
  /\ pc[p] = "tx_rollback"
  /\ Charge(ok) /\ Log(p, "ROLLBACK", ok)
  /\ Install(AfterRollback(client(p)))
  /\ txn' = [txn EXCEPT ![client(p)] = NoTxn]
  /\ client_release(p)
  /\ outcome' = [outcome EXCEPT ![p] = Raised(IF ok THEN err[p] ELSE "ROLLBACK failed")]
  /\ pc' = [pc EXCEPT ![p] = "done"]
  /\ UNCHANGED <<nextOrderId, nextItemId, clock, callVars, cancelled, delivered>>

\* ---------------------------------------------------------------- executeQuery
\* executeQuery: const client = await pool.connect()
ConnectTo(p, from, to) ==
  /\ pc[p] = from
  /\ pool_connect(p)
  /\ pc' = [pc EXCEPT ![p] = to]
  /\ UNCHANGED <<dbVars, callVars, trace, outcome, histVars, failures>>

q_connect(p) == ConnectTo(p, "q_connect", "q_query")

\* A single-statement operation enters executeQuery.
Call(p, o) ==
  /\ Begin(p, o)
  /\ pc' = [pc EXCEPT ![p] = "q_connect"]
  /\ UNCHANGED <<dbVars, poolVars, order, idx, err, caught, trace, outcome, histVars, failures>>

\* executeQuery failed: finally releases, the error reaches the operation's caller.
QueryFailed(p, stmt) ==
  /\ client_release(p)
  /\ outcome' = [outcome EXCEPT ![p] = Raised(stmt \o " failed")]
  /\ pc' = [pc EXCEPT ![p] = "done"]

\* Mutant: the statement only makes the transitions pending -> paid and
\* pending | paid -> fulfilled.
SetStatus_guarded(rows, id, status, now) ==
  { IF r.id = id /\ \/ r.status = "pending" /\ status = "paid"
                    \/ r.status \in {"pending", "paid"} /\ status = "fulfilled"
      THEN [r EXCEPT !.status = status, !.updated_at = now]
      ELSE r : r \in rows }

\* Mutant: the statement inserts the row when the id has none.
SetStatus_upsert(rows, id, status, now) ==
  IF \E r \in rows : r.id = id
    THEN { IF r.id = id THEN [r EXCEPT !.status = status, !.updated_at = now] ELSE r :
           r \in rows }
    ELSE rows \cup { [id |-> id, user_id |-> 0, status |-> status, total_amount |-> 0,
                      created_at |-> now, updated_at |-> now, paid_at |-> {}] }

\* Mutant: the statement has no WHERE clause.
SetStatus_allRows(rows, id, status, now) ==
  { [r EXCEPT !.status = status, !.updated_at = now] : r \in rows }

\* UPDATE orders SET status = $1, updated_at = NOW() WHERE id = $2
SetStatus(rows, id, status, now) ==
  { IF r.id = id THEN [r EXCEPT !.status = status, !.updated_at = now] ELSE r : r \in rows }

\* Mutant: the statement writes the creation timestamp back into updated_at.
SetPaid_createdAt(rows, id, now) ==
  { IF r.id = id
      THEN [r EXCEPT !.status = "paid", !.paid_at = {now}, !.updated_at = r.created_at]
      ELSE r : r \in rows }

\* UPDATE orders SET status = 'paid', paid_at = NOW(), updated_at = NOW() WHERE id = $2
SetPaid(rows, id, now) ==
  { IF r.id = id
      THEN [r EXCEPT !.status = "paid", !.paid_at = {now}, !.updated_at = now]
      ELSE r : r \in rows }

\* SELECT * FROM orders WHERE id = $1   /   ... RETURNING *
RowsById(rows, id) == { r \in rows : r.id = id }

getOrderById(p, id) ==
  Call(p, [NoOp EXCEPT !.name = "getOrderById", !.orderId = id,
                       !.afterCancel = id \in cancelled])

\* Mutant: the SELECT also stamps the rows it read.
AfterSelect_touches(rows, id) ==
  { IF r.id = id THEN [r EXCEPT !.updated_at = @ + 1] ELSE r : r \in rows }

\* Table orders after a SELECT that read the rows of id.
AfterSelect(rows, id) == rows

\* const result = await executeQuery(SELECT ...); return <result>   (then finally)
Select(p, ok, stmt, result) ==
  /\ pc[p] = "q_query"
  /\ Charge(ok) /\ Log(p, stmt, ok)
  /\ IF ok
       THEN /\ client_release(p)
            /\ outcome' = [outcome EXCEPT ![p] = Returned(result)]
            /\ pc' = [pc EXCEPT ![p] = "done"]
            /\ orders' = AfterSelect(orders, op[p].orderId)
       ELSE /\ QueryFailed(p, stmt)
            /\ UNCHANGED orders
  /\ UNCHANGED <<items, nextOrderId, nextItemId, clock, txn, callVars, histVars>>

\* return result.rows[0] || null
getOrderById_query(p, ok) ==
  /\ op[p].name = "getOrderById"
  /\ Select(p, ok, "SELECT orders", RowsById(orders, op[p].orderId))

updateOrderStatus(p, id, status) ==
  Call(p, [NoOp EXCEPT !.name = "updateOrderStatus", !.orderId = id, !.status = status,
                       !.afterCancel = id \in cancelled])

\* PUT /orders/:id/status: if (!status) return res.status(400)...; otherwise
\* await orderService.updateOrderStatus(orderId, status)
putOrderStatus(p, id, status) ==
  IF status = ""
    THEN /\ Begin(p, [NoOp EXCEPT !.name = "putOrderStatus", !.orderId = id])
         /\ outcome' = [outcome EXCEPT ![p] = Rejected("Status is required")]
         /\ pc' = [pc EXCEPT ![p] = "done"]
         /\ UNCHANGED <<dbVars, poolVars, order, idx, err, caught, trace, histVars, failures>>
    ELSE updateOrderStatus(p, id, status)

\* const order = await updateOrderStatus(orderId, 'fulfilled'); return order
fulfillOrder(p, id) ==
  Call(p, [NoOp EXCEPT !.name = "fulfillOrder", !.orderId = id, !.status = "fulfilled",
                       !.afterCancel = id \in cancelled])

\* const order = result.rows[0]; return order
updateOrderStatus_query(p, ok, now) ==
  /\ pc[p] = "q_query" /\ op[p].name \in {"updateOrderStatus", "fulfillOrder"}
  /\ Charge(ok) /\ Log(p, "UPDATE orders", ok)
  /\ IF ok
       THEN LET rows == SetStatus(orders, op[p].orderId, op[p].status, now) IN
            /\ Install([orders |-> rows, items |-> items])
            /\ clock' = now
            /\ client_release(p)
            /\ outcome' = [outcome EXCEPT ![p] = Returned(RowsById(rows, op[p].orderId))]
            /\ pc' = [pc EXCEPT ![p] = "done"]
       ELSE /\ QueryFailed(p, "UPDATE orders")
            /\ UNCHANGED <<orders, items, everOrders, everItems, clock>>
  /\ UNCHANGED <<nextOrderId, nextItemId, txn, callVars, cancelled, delivered>>

markOrderPaid(p, id) ==
  Call(p, [NoOp EXCEPT !.name = "markOrderPaid", !.orderId = id, !.status = "paid",
                       !.afterCancel = id \in cancelled])

\* return result.rows[0]
markOrderPaid_query(p, ok, now) ==
  /\ pc[p] = "q_query" /\ op[p].name = "markOrderPaid"
  /\ Charge(ok) /\ Log(p, "UPDATE orders", ok)
  /\ IF ok
       THEN LET rows == SetPaid(orders, op[p].orderId, now) IN
            /\ Install([orders |-> rows, items |-> items])
            /\ clock' = now
            /\ client_release(p)
            /\ outcome' = [outcome EXCEPT ![p] = Returned(RowsById(rows, op[p].orderId))]
            /\ pc' = [pc EXCEPT ![p] = "done"]
       ELSE /\ QueryFailed(p, "UPDATE orders")
            /\ UNCHANGED <<orders, items, everOrders, everItems, clock>>
  /\ UNCHANGED <<nextOrderId, nextItemId, txn, callVars, cancelled, delivered>>

\* ---------------------------------------------------------------- cancelOrder
cancelOrder(p, id) ==
  /\ Begin(p, [NoOp EXCEPT !.name = "cancelOrder", !.orderId = id,
                           !.existed = RowsById(orders, id) # {}])
  /\ pc' = [pc EXCEPT ![p] = "cx_items_connect"]
  /\ UNCHANGED <<dbVars, poolVars, order, idx, err, caught, trace, outcome, histVars, failures>>

cancel_items_connect(p) == ConnectTo(p, "cx_items_connect", "cx_items")
cancel_order_connect(p) == ConnectTo(p, "cx_order_connect", "cx_order")
cancel_get_connect(p)   == ConnectTo(p, "cx_get_connect", "cx_get")

\* Mutant: the item rows are left behind.
DeleteItems_skipped(rows, id) == rows

\* DELETE FROM order_items WHERE order_id = $1
DeleteItems(rows, id) == { r \in rows : r.order_id # id }

\* Mutant: the order row is left behind.
DeleteOrder_skipped(rows, id) == rows

\* DELETE FROM orders WHERE id = $1
DeleteOrder(rows, id) == { r \in rows : r.id # id }

\* await executeQuery('DELETE FROM order_items WHERE order_id = $1', [orderId])
cancel_deleteItems(p, ok) ==
  /\ pc[p] = "cx_items"
  /\ Charge(ok) /\ Log(p, "DELETE order_items", ok)
  /\ IF ok
       THEN /\ Install([orders |-> orders, items |-> DeleteItems(items, op[p].orderId)])
            /\ client_release(p)
            /\ pc' = [pc EXCEPT ![p] = "cx_order_connect"]
            /\ UNCHANGED outcome
       ELSE /\ QueryFailed(p, "DELETE order_items")
            /\ UNCHANGED <<orders, items, everOrders, everItems>>
  /\ UNCHANGED <<nextOrderId, nextItemId, clock, txn, callVars, cancelled, delivered>>

\* await executeQuery('DELETE FROM orders WHERE id = $1', [orderId])
cancel_deleteOrder(p, ok) ==
  /\ pc[p] = "cx_order"
  /\ Charge(ok) /\ Log(p, "DELETE orders", ok)
  /\ IF ok
       THEN /\ Install([orders |-> DeleteOrder(orders, op[p].orderId), items |-> items])
            /\ client_release(p)
            /\ pc' = [pc EXCEPT ![p] = "cx_get_connect"]
            /\ UNCHANGED outcome
       ELSE /\ QueryFailed(p, "DELETE orders")
            /\ UNCHANGED <<orders, items, everOrders, everItems>>
  /\ UNCHANGED <<nextOrderId, nextItemId, clock, txn, callVars, cancelled, delivered>>

\* Mutant: the catch block of cancelOrder rethrows instead of swallowing.
cancel_return_rethrows(p) ==
  /\ outcome' = [outcome EXCEPT ![p] = Raised("Order cancellation notification failed")]
  /\ pc' = [pc EXCEPT ![p] = "done"]
  /\ UNCHANGED cancelled

\* cancelOrder returns normally (falls off the end, or its catch swallowed an error).
cancel_return(p) ==
  /\ outcome' = [outcome EXCEPT ![p] = Returned({})]
  /\ pc' = [pc EXCEPT ![p] = "done"]
  /\ cancelled' = IF op[p].existed THEN cancelled \cup {op[p].orderId} ELSE cancelled

\* try { const order = await getOrderById(orderId); if (order) ... } catch (error) { }
cancel_getOrderById(p, ok) ==
  /\ pc[p] = "cx_get"
  /\ Charge(ok) /\ Log(p, "SELECT orders", ok)
  /\ client_release(p)
  /\ LET found == IF ok THEN RowsById(orders, op[p].orderId) ELSE {} IN
       /\ order' = [order EXCEPT ![p] = found]
       /\ IF ok THEN UNCHANGED caught ELSE Caught(p, "SELECT orders failed")
       /\ IF found # {}
            THEN /\ pc' = [pc EXCEPT ![p] = "cx_lookup"]
                 /\ UNCHANGED <<outcome, cancelled>>
            ELSE cancel_return(p)
  /\ UNCHANGED <<dbVars, op, idx, err, everOrders, everItems, delivered>>

\* sendOrderCancellation: const user = await fetchUserEmail(userId)
cancellation_fetchUserEmail(p, ok) ==
  /\ pc[p] = "cx_lookup"
  /\ Charge(ok) /\ Log(p, "fetchUserEmail", ok)
  /\ IF ok
       THEN /\ pc' = [pc EXCEPT ![p] = "cx_send"]
            /\ UNCHANGED <<outcome, cancelled, caught>>
       ELSE /\ cancel_return(p)
            /\ Caught(p, sendOrderCancellation_catch("fetchUserEmail failed"))
  /\ UNCHANGED <<dbVars, poolVars, op, order, idx, err, everOrders, everItems, delivered>>

\* sendOrderCancellation: await sendEmail({...})
cancellation_sendEmail(p, ok) ==
  /\ pc[p] = "cx_send"
  /\ Charge(ok) /\ Log(p, "sendEmail", ok)
  /\ cancel_return(p)
  /\ IF ok THEN UNCHANGED caught
           ELSE Caught(p, sendOrderCancellation_catch("sendEmail failed"))
  /\ UNCHANGED <<dbVars, poolVars, op, order, idx, err, everOrders, everItems, delivered>>

\* ---------------------------------------------------------------- specification
Next ==
  \E p \in Procs :
    \/ \E u \in UserIds, its \in ItemLists : createOrder(p, u, its)
    \/ tx_connect(p)
    \/ \E ok \in Results : BEGIN(p, ok)
    \/ \E ok \in Results, now \in Nows : insertOrder(p, ok, now)
    \/ \E ok \in Results : insertOrderItem(p, ok)
    \/ \E ok \in Results : confirmation_fetchUserEmail(p, ok)
    \/ \E ok \in Results : confirmation_sendEmail(p, ok)
    \/ \E ok \in Results : COMMIT(p, ok)
    \/ \E ok \in Results : ROLLBACK(p, ok)
    \/ \E id \in OrderIds : getOrderById(p, id)
    \/ \E id \in OrderIds, s \in StatusInputs : putOrderStatus(p, id, s)
    \/ \E id \in OrderIds : markOrderPaid(p, id)
    \/ \E id \in OrderIds : fulfillOrder(p, id)
    \/ q_connect(p)
    \/ \E ok \in Results : getOrderById_query(p, ok)
    \/ \E ok \in Results, now \in Nows : updateOrderStatus_query(p, ok, now)
    \/ \E ok \in Results, now \in Nows : markOrderPaid_query(p, ok, now)
    \/ \E id \in OrderIds : cancelOrder(p, id)
    \/ cancel_items_connect(p)
    \/ \E ok \in Results : cancel_deleteItems(p, ok)
    \/ cancel_order_connect(p)
    \/ \E ok \in Results : cancel_deleteOrder(p, ok)
    \/ cancel_get_connect(p)
    \/ \E ok \in Results : cancel_getOrderById(p, ok)
    \/ \E ok \in Results : cancellation_fetchUserEmail(p, ok)
    \/ \E ok \in Results : cancellation_sendEmail(p, ok)

Spec == Init /\ [][Next]_vars

\* ---------------------------------------------------------------- scheduling
\* pool.connect() of process p is granted.
Connect(p) ==
  \/ tx_connect(p)
  \/ q_connect(p)
  \/ cancel_items_connect(p) \/ cancel_order_connect(p) \/ cancel_get_connect(p)

\* A statement or notification call awaited by process p ends.
Complete(p) ==
  \E ok \in Results, now \in Nows :
    \/ BEGIN(p, ok) \/ insertOrder(p, ok, now) \/ insertOrderItem(p, ok)
    \/ confirmation_fetchUserEmail(p, ok) \/ confirmation_sendEmail(p, ok)
    \/ COMMIT(p, ok) \/ ROLLBACK(p, ok)
    \/ getOrderById_query(p, ok)
    \/ updateOrderStatus_query(p, ok, now) \/ markOrderPaid_query(p, ok, now)
    \/ cancel_deleteItems(p, ok) \/ cancel_deleteOrder(p, ok)
    \/ cancel_getOrderById(p, ok)
    \/ cancellation_fetchUserEmail(p, ok) \/ cancellation_sendEmail(p, ok)

\* Every awaited statement and notification call ends, and the pool, which queues
\* its waiting callers, grants a request that can be granted again and again.
Fairness == \A p \in Procs : WF_vars(Complete(p)) /\ SF_vars(Connect(p))

\* The operations as the pool sees them: one request of each shape (a
\* transaction, a single query, a chain of queries), all on order 1.
NextPool ==
  \E p \in Procs :
    \/ createOrder(p, 1, Basket(1))
    \/ getOrderById(p, 1)
    \/ markOrderPaid(p, 1)
    \/ fulfillOrder(p, 1)
    \/ cancelOrder(p, 1)
    \/ Connect(p)
    \/ Complete(p)

SpecPool == Init /\ [][NextPool]_vars /\ Fairness

\* ================================================================ read operations
\* The item rows of an order, in insertion order, as createOrder inputs.
ItemsOf(rows, id) == { r \in rows : r.order_id = id }
RECURSIVE ItemSeq(_)
ItemSeq(rows) ==
  IF rows = {} THEN <<>>
  ELSE LET r == CHOOSE x \in rows : \A y \in rows : x.id <= y.id
       IN <<[productId |-> r.product_id, quantity |-> r.quantity, price |-> r.price]>>
            \o ItemSeq(rows \ {r})

\* Sum of price * quantity over the first n supplied items / over item rows.
RECURSIVE SumSupplied(_, _)
SumSupplied(its, n) ==
  IF n = 0 THEN 0 ELSE SumSupplied(its, n - 1) + its[n].price * its[n].quantity
RECURSIVE SumRows(_)
SumRows(rows) ==
  IF rows = {} THEN 0
  ELSE LET r == CHOOSE x \in rows : TRUE
       IN r.price * r.quantity + SumRows(rows \ {r})

\* The rows of a SELECT ... ORDER BY created_at DESC, in each order the database
\* may return them: rows of equal created_at come in any order.
RECURSIVE OrderByCreatedAtDesc(_)
OrderByCreatedAtDesc(rows) ==
  IF rows = {} THEN {<<>>}
  ELSE UNION { { <<r>> \o t : t \in OrderByCreatedAtDesc(rows \ {r}) } :
               r \in { x \in rows : \A y \in rows : x.created_at >= y.created_at } }

getOrdersByUser(p, userId) == Call(p, [NoOp EXCEPT !.name = "getOrdersByUser", !.userId = userId])

\* SELECT * FROM orders WHERE user_id = $1 ORDER BY created_at DESC; return result.rows
getOrdersByUser_query(p, ok) ==
  /\ op[p].name = "getOrdersByUser"
  /\ \E rows \in OrderByCreatedAtDesc({ r \in orders : r.user_id = op[p].userId }) :
       Select(p, ok, "SELECT orders", rows)

getOrderItems(p, id) == Call(p, [NoOp EXCEPT !.name = "getOrderItems", !.orderId = id])

\* SELECT * FROM order_items WHERE order_id = $1; return result.rows
getOrderItems_query(p, ok) ==
  /\ op[p].name = "getOrderItems"
  /\ Select(p, ok, "SELECT order_items", ItemsOf(items, op[p].orderId))

calculateOrderTotal(p, id) ==
  Call(p, [NoOp EXCEPT !.name = "calculateOrderTotal", !.orderId = id])

\* SELECT SUM(price * quantity) as total FROM order_items WHERE order_id = $1
\* return result.rows[0]?.total || 0      -- SUM over no rows is NULL, returned as 0
total(rows, id) == SumRows(ItemsOf(rows, id))

calculateOrderTotal_query(p, ok) ==
  /\ op[p].name = "calculateOrderTotal"
  /\ Select(p, ok, "SELECT SUM", total(items, op[p].orderId))

\* Requests that only read.
NextRead ==
  \E p \in Procs :
    \/ \E id \in OrderIds : getOrderById(p, id)
    \/ \E u \in UserIds : getOrdersByUser(p, u)
    \/ \E id \in OrderIds : getOrderItems(p, id)
    \/ \E id \in OrderIds : calculateOrderTotal(p, id)
    \/ q_connect(p)
    \/ \E ok \in Results : getOrderById_query(p, ok)
    \/ \E ok \in Results : getOrdersByUser_query(p, ok)
    \/ \E ok \in Results : getOrderItems_query(p, ok)
    \/ \E ok \in Results : calculateOrderTotal_query(p, ok)

SpecRead == Init /\ [][NextRead]_vars

\* ================================================================ POST /orders
\* The request bodies of POST /orders: a user id that is missing (0) or present,
\* and no item, one item, or the first item of the spec's example followed by one
\* item; the item's quantity and price are each negative, zero or positive.
PostItems ==
  { [productId |-> 1, quantity |-> q, price |-> pr] : q \in {-1, 0, 2}, pr \in {-5, 0, 10} }
PostBodies ==
  { [userId |-> u, items |-> its] :
      u \in {0} \cup UserIds,
      its \in {<<>>} \cup { <<a>> : a \in PostItems }
                     \cup { <<ItemKinds[1], a>> : a \in PostItems } }

\* Mutant: the validator also rejects a negative price.
validItem_priced(item) ==
  /\ item.productId # 0
  /\ ~(item.quantity = 0 \/ item.quantity <= 0)
  /\ item.price >= 0

\* if (!item.productId) throw ...; if (!item.quantity || item.quantity <= 0) throw ...
validItem(item) ==
  /\ item.productId # 0
  /\ ~(item.quantity = 0 \/ item.quantity <= 0)

\* validateOrderData(data) returns (TRUE) or throws 'Order validation failed' (FALSE)
validateOrderData(data) ==
  /\ data.userId # 0
  /\ Len(data.items) # 0
  /\ \A i \in 1..Len(data.items) : validItem(data.items[i])

\* router.post('/orders'): await validateOrderData(req.body), then createOrder;
\* the catch block answers 400 with the error's message.
postOrders(p, data) ==
  IF validateOrderData(data)
    THEN createOrder(p, data.userId, data.items)
    ELSE /\ Begin(p, [NoOp EXCEPT !.name = "postOrders", !.userId = data.userId,
                                  !.items = data.items])
         /\ outcome' = [outcome EXCEPT ![p] = Rejected("Order validation failed")]
         /\ pc' = [pc EXCEPT ![p] = "done"]
         /\ UNCHANGED <<dbVars, poolVars, order, idx, err, caught, trace, histVars, failures>>

NextPost ==
  \E p \in Procs :
    \/ \E data \in PostBodies : postOrders(p, data)
    \/ tx_connect(p)
    \/ \E ok \in Results : BEGIN(p, ok)
    \/ \E ok \in Results, now \in Nows : insertOrder(p, ok, now)
    \/ \E ok \in Results : insertOrderItem(p, ok)
    \/ \E ok \in Results : confirmation_fetchUserEmail(p, ok)
    \/ \E ok \in Results : confirmation_sendEmail(p, ok)
    \/ \E ok \in Results : COMMIT(p, ok)
    \/ \E ok \in Results : ROLLBACK(p, ok)

\* The requests arrive on an empty database behind the pool of `max` clients.
InitPost == Init /\ orders = {} /\ poolSize = PoolMax

SpecPost == InitPost /\ [][NextPost]_vars

\* ================================================================ notification dispatcher
\* The dispatcher called directly, as the user service and the routing layer do:
\* the Order Service is at rest on an empty database.
InitDispatcher == Init /\ orders = {} /\ poolSize = PoolMax

\* await fetchUserEmail(userId) / await sendEmail({...}) as one caller saw them end.
NLog(c, s, e) == nTrace' = [nTrace EXCEPT ![c] = Append(@, [stmt |-> s, error |-> e])]
NFailed(c, s) == \E i \in 1..Len(nTrace[c]) : nTrace[c][i].stmt = s /\ nTrace[c][i].error # "none"
NIssued(c, s) == \E i \in 1..Len(nTrace[c]) : nTrace[c][i].stmt = s

\* A caller invokes dispatcher function f, which runs up to its first await.
Invoke(c, f, at) ==
  /\ nPc[c] = "idle"
  /\ nOp' = [nOp EXCEPT ![c] = f]
  /\ nPc' = [nPc EXCEPT ![c] = at]
  /\ UNCHANGED <<nTrace, nOutcome, bulkVars, serviceVars>>

sendOrderConfirmation(c) == Invoke(c, "sendOrderConfirmation", "lookup")
sendOrderCancellation(c) == Invoke(c, "sendOrderCancellation", "lookup")
sendWelcomeEmail(c)      == Invoke(c, "sendWelcomeEmail", "lookup")
\* sendPasswordReset(email, token) is given the address: it has no lookup.
sendPasswordReset(c)     == Invoke(c, "sendPasswordReset", "send")

\* Mutant: the catch block of sendPasswordReset throws a normalized error.
sendPasswordReset_normalizes(e) == "Failed to send password reset email"

\* sendPasswordReset: catch (error) { logger.error(...); throw error; }
sendPasswordReset_catch(e) == e

\* Mutant: the catch block of sendWelcomeEmail rethrows.
sendWelcomeEmail_rethrows(e) == Raised(e)

\* sendWelcomeEmail: catch (error) { logger.error(...) }   -- the call returns
sendWelcomeEmail_catch(e) == Returned({})

\* The catch block of the dispatcher function in flight receives error e.
notify_catch(c, e) ==
  /\ nOutcome' = [nOutcome EXCEPT ![c] =
        CASE nOp[c] = "sendOrderConfirmation" -> Raised(sendOrderConfirmation_catch(e))
          [] nOp[c] = "sendOrderCancellation" -> Raised(sendOrderCancellation_catch(e))
          [] nOp[c] = "sendPasswordReset"     -> Raised(sendPasswordReset_catch(e))
          [] nOp[c] = "sendWelcomeEmail"      -> sendWelcomeEmail_catch(e)]
  /\ nPc' = [nPc EXCEPT ![c] = "done"]

\* const user = await fetchUserEmail(userId)
notify_fetchUserEmail(c, ok) ==
  /\ nPc[c] = "lookup"
  /\ IF ok
       THEN /\ NLog(c, "fetchUserEmail", "none")
            /\ nPc' = [nPc EXCEPT ![c] = "send"]
            /\ UNCHANGED nOutcome
       ELSE /\ NLog(c, "fetchUserEmail", "fetchUserEmail failed")
            /\ notify_catch(c, "fetchUserEmail failed")
  /\ UNCHANGED <<nOp, bulkVars, serviceVars>>

\* await sendEmail({...}); the function then falls off the end of its try block.
notify_sendEmail(c, e) ==
  /\ nPc[c] = "send"
  /\ NLog(c, "sendEmail", e)
  /\ IF e = "none"
       THEN /\ nOutcome' = [nOutcome EXCEPT ![c] = Returned({})]
            /\ nPc' = [nPc EXCEPT ![c] = "done"]
       ELSE notify_catch(c, e)
  /\ UNCHANGED <<nOp, bulkVars, serviceVars>>

NextNotify ==
  \E c \in Callers :
    \/ sendOrderConfirmation(c)
    \/ sendOrderCancellation(c)
    \/ sendPasswordReset(c)
    \/ sendWelcomeEmail(c)
    \/ \E ok \in BOOLEAN : notify_fetchUserEmail(c, ok)
    \/ \E e \in {"none"} \cup DeliveryErrors : notify_sendEmail(c, e)

SpecNotify == InitDispatcher /\ [][NextNotify]_vars

\* ---------------------------------------------------------------- sendBulkNotifications
BLog(i, s, ok) == bTrace' = [bTrace EXCEPT ![i] = Append(@, [stmt |-> s, ok |-> ok])]
BSucceeded(i, s) == \E k \in 1..Len(bTrace[i]) : bTrace[i][k].stmt = s /\ bTrace[i][k].ok
BFailed(i, s) == \E k \in 1..Len(bTrace[i]) : bTrace[i][k].stmt = s /\ ~bTrace[i][k].ok

\* userIds.map(async (userId) => ...) starts one promise per recipient, each running
\* up to its await fetchUserEmail; the call then awaits Promise.allSettled.
sendBulkNotifications(n) ==
  /\ bPc = "idle"
  /\ userIds' = [i \in 1..n |-> i]
  /\ task' = [i \in Recipients |-> IF i <= n THEN "lookup" ELSE "none"]
  /\ bPc' = "allSettled"
  /\ UNCHANGED <<sends, bTrace, report, bOutcome, notifyVars, serviceVars>>

\* Mutant: a recipient is skipped once another recipient's promise has rejected.
AfterLookup_failFast(i, ok) ==
  IF ok /\ \A j \in Recipients : task[j] # "rejected" THEN "send" ELSE "rejected"

\* const user = await fetchUserEmail(userId); return sendEmail(...)
\* The promise of recipient i after its lookup ended.
AfterLookup(i, ok) == IF ok THEN "send" ELSE "rejected"

\* The lookup of recipient i ends; on success its promise calls sendEmail at once.
bulk_fetchUserEmail(i, ok) ==
  /\ task[i] = "lookup"
  /\ BLog(i, "fetchUserEmail", ok)
  /\ task' = [task EXCEPT ![i] = AfterLookup(i, ok)]
  /\ sends' = [sends EXCEPT ![i] = IF AfterLookup(i, ok) = "send" THEN @ + 1 ELSE @]
  /\ UNCHANGED <<bPc, userIds, report, bOutcome, notifyVars, serviceVars>>

\* The sendEmail of recipient i ends, and with it the recipient's promise.
bulk_sendEmail(i, ok) ==
  /\ task[i] = "send"
  /\ BLog(i, "sendEmail", ok)
  /\ task' = [task EXCEPT ![i] = IF ok THEN "fulfilled" ELSE "rejected"]
  /\ UNCHANGED <<bPc, userIds, sends, report, bOutcome, notifyVars, serviceVars>>

Settled(i) == task[i] \in {"fulfilled", "rejected"}

\* Mutant: Promise.race in place of Promise.allSettled.
AllSettled_first == \E i \in 1..Len(userIds) : Settled(i)

\* Promise.allSettled resolves when every promise has settled; it never rejects.
AllSettled == \A i \in 1..Len(userIds) : Settled(i)

\* results.filter(r => r.status === s).length
filter(s) == Cardinality({ i \in 1..Len(userIds) : task[i] = s })

\* const results = await Promise.allSettled(...); the counts are logged; return.
bulk_allSettled ==
  /\ bPc = "allSettled"
  /\ AllSettled
  /\ report' = [successful |-> filter("fulfilled"), failed |-> filter("rejected")]
  /\ bOutcome' = Returned({})
  /\ bPc' = "done"
  /\ UNCHANGED <<userIds, task, sends, bTrace, notifyVars, serviceVars>>

NextBulk ==
  \/ \E n \in 0..MaxRecipients : sendBulkNotifications(n)
  \/ \E i \in Recipients, ok \in BOOLEAN : bulk_fetchUserEmail(i, ok)
  \/ \E i \in Recipients, ok \in BOOLEAN : bulk_sendEmail(i, ok)
  \/ bulk_allSettled

SpecBulk == InitDispatcher /\ [][NextBulk]_vars

\* ================================================================ properties
ConnectPcs == {"tx_connect", "q_connect", "cx_items_connect", "cx_order_connect",
               "cx_get_connect"}
HoldingPcs == {"tx_begin", "tx_insert_order", "tx_insert_item", "tx_notify_lookup",
               "tx_notify_send", "tx_commit", "tx_rollback", "q_query",
               "cx_items", "cx_order", "cx_get"}
DbStmts == {"BEGIN", "INSERT orders", "INSERT order_items", "COMMIT", "ROLLBACK"}

Creating(p) == op[p].name = "createOrder"
Done(p) == pc[p] = "done"

RECURSIVE HeldBy(_)
HeldBy(ps) ==
  IF ps = {} THEN 0
  ELSE LET p == CHOOSE x \in ps : TRUE IN Cardinality(held[p]) + HeldBy(ps \ {p})
\* Connections checked out of the pool, counted per holder.
CheckedOut == HeldBy(Procs)

\* Neither the order row nor an item row of order id was ever committed.
NeverCommitted(id) ==
  /\ id \notin everOrders
  /\ ItemsOf(everItems, id) = {}
  /\ RowsById(orders, id) = {} /\ ItemsOf(items, id) = {}

\* The unit of work of createOrder ran to its end.
UowCompleted(p) ==
  /\ Succeeded(p, "INSERT orders")
  /\ ~Failed(p, "INSERT order_items")
  /\ idx[p] > Len(op[p].items)
UowFailed(p) == Failed(p, "INSERT orders") \/ Failed(p, "INSERT order_items")

\* ---------------------------------------------------------------- C1
\* C1: when createOrder's order INSERT succeeded and a later item INSERT failed,
\* the call goes to ROLLBACK, ends raising, and neither its order row nor any of
\* its item rows is or ever was in the committed tables (the only tables another
\* connection reads).
C1_case(p) ==
  Creating(p) /\ Succeeded(p, "INSERT orders") /\ Failed(p, "INSERT order_items")
C1_RollbackCompleteness ==
  \A p \in Procs : C1_case(p) =>
    /\ pc[p] \in {"tx_rollback", "done"}
    /\ Done(p) => Issued(p, "ROLLBACK") /\ outcome[p].kind = "raised"
    /\ order[p] # {}
    /\ \A o \in order[p] : NeverCommitted(o.id)
C1_Witness ==
  \E p, q \in Procs :
    /\ p # q /\ C1_case(p) /\ Done(p)
    /\ op[q].name = "getOrderById" /\ Done(q) /\ outcome[q].kind = "returned"
    /\ \A o \in order[p] : op[q].orderId = o.id

\* ---------------------------------------------------------------- C2
\* C2: createOrder starts the order-confirmation dispatch only after its COMMIT
\* succeeded, never while the transaction is open.
C2_DispatchAfterCommit ==
  \A p \in Procs : Creating(p) =>
    \A i \in 1..Len(trace[p]) :
      trace[p][i].stmt \in {"fetchUserEmail", "sendEmail"} =>
        \E j \in 1..(i - 1) : trace[p][j] = [stmt |-> "COMMIT", ok |-> TRUE]

\* ---------------------------------------------------------------- C3
\* C3: when every database statement of createOrder succeeded and the
\* confirmation failed (lookup or send), no ROLLBACK was issued, the order and
\* all its items were committed, and createOrder returned the created order.
C3_case(p) ==
  /\ Creating(p) /\ Done(p)
  /\ \A i \in 1..Len(trace[p]) : trace[p][i].stmt \in DbStmts => trace[p][i].ok
  /\ Failed(p, "fetchUserEmail") \/ Failed(p, "sendEmail")
C3_NotificationIsolation ==
  \A p \in Procs : C3_case(p) =>
    /\ ~Issued(p, "ROLLBACK")
    /\ order[p] # {}
    /\ outcome[p] = Returned(order[p])
    /\ \A o \in order[p] :
         /\ o.id \in everOrders
         /\ ItemSeq(ItemsOf(everItems, o.id)) = op[p].items
C3_Witness ==
  \E p, q \in Procs :
    /\ C3_case(p) /\ Failed(p, "sendEmail")
    /\ C3_case(q) /\ Failed(q, "fetchUserEmail")

\* ---------------------------------------------------------------- C4
\* C4: a connection acquired by executeTransaction or executeQuery is released
\* exactly once on every exit path, so a process holds a connection only between
\* pool.connect() and the end of that call, and with no call in flight every
\* connection is back in the pool.
C4_ReleasedOnEveryPath ==
  /\ \A p \in Procs :
       /\ Cardinality(held[p]) = acquires[p] - releases[p]
       /\ pc[p] \in HoldingPcs => Cardinality(held[p]) = 1
       /\ pc[p] \notin HoldingPcs => held[p] = {}
  /\ (\A p \in Procs : pc[p] \in {"idle", "done"}) =>
       poolIdle = 1..poolSize /\ CheckedOut = 0
C4_Witness ==
  \E p, q \in Procs :
    /\ Done(p) /\ Failed(p, "COMMIT") /\ Failed(p, "ROLLBACK")
    /\ Done(q) /\ op[q].name \in {"updateOrderStatus", "markOrderPaid", "getOrderById"}

\* ---------------------------------------------------------------- C5
\* C5: when the unit of work fails, executeTransaction issues ROLLBACK and its
\* caller receives the unit of work's original failure, the connection released.
C5_OriginalFailure ==
  \A p \in Procs : Creating(p) /\ Done(p) /\ UowFailed(p) =>
    /\ Issued(p, "ROLLBACK")
    /\ outcome[p] = Raised(err[p])
    /\ held[p] = {}

\* ---------------------------------------------------------------- C6
\* C6: executeTransaction returns the unit of work's result exactly when the unit
\* of work completed and COMMIT succeeded, and then without any ROLLBACK;
\* otherwise it raises and none of the transaction's writes is committed.
C6_ReturnOnlyAfterCommit ==
  \A p \in Procs : Creating(p) /\ Done(p) =>
    /\ outcome[p].kind \in {"returned", "raised"}
    /\ outcome[p].kind = "returned" <=> (UowCompleted(p) /\ Succeeded(p, "COMMIT"))
    /\ outcome[p].kind = "returned" =>
         ~Issued(p, "ROLLBACK") /\ order[p] # {} /\ outcome[p].value = order[p]
    /\ outcome[p].kind = "raised" => \A o \in order[p] : NeverCommitted(o.id)
C6_Witness ==
  \E p, q \in Procs :
    /\ Creating(p) /\ Done(p) /\ UowCompleted(p) /\ Failed(p, "COMMIT")
    /\ Creating(q) /\ Done(q) /\ outcome[q].kind = "returned"

\* ---------------------------------------------------------------- C7
\* C7: the connections checked out never exceed the pool's maximum, no connection
\* is held by two operations at once, and a caller that finds the pool exhausted
\* is waiting in pool.connect(), not failed.
C7_PoolBound ==
  /\ poolSize <= PoolMax
  /\ CheckedOut <= poolSize
  /\ \A p, q \in Procs : p # q => held[p] \cap held[q] = {}
  /\ \A p \in Procs : pc[p] \in ConnectPcs => held[p] = {} /\ outcome[p].kind = "none"
C7_Witness ==
  \E p, q \in Procs :
    /\ pc[p] \in ConnectPcs /\ poolIdle = {} /\ CheckedOut = poolSize
    /\ pc[q] \in HoldingPcs /\ op[q].name = "createOrder"

\* ---------------------------------------------------------------- C8
\* C8: in every committed database state every item row's order_id is the id of
\* an order row that exists, and order ids and item ids are unique.
C8_ReferentialInvariant ==
  /\ \A i \in items : \E o \in orders : o.id = i.order_id
  /\ \A o1, o2 \in orders : o1.id = o2.id => o1 = o2
  /\ \A i1, i2 \in items : i1.id = i2.id => i1 = i2

\* ---------------------------------------------------------------- C9
\* C9: a createOrder that returns has stored and returns total_amount = the sum of
\* price * quantity over the supplied items (35 for [(10,2),(5,3)]), and the item
\* rows it committed are exactly the supplied items, so the stored total is the
\* sum over those rows.
C9_case(p) == Creating(p) /\ Done(p) /\ outcome[p].kind = "returned"
C9_TotalAmount ==
  \A p \in Procs : C9_case(p) =>
    \A o \in outcome[p].value :
      LET rows == ItemsOf(everItems, o.id) IN
      /\ o.total_amount = SumSupplied(op[p].items, Len(op[p].items))
      /\ op[p].items = ItemKinds => o.total_amount = 35
      /\ ItemSeq(rows) = op[p].items
      /\ \A r \in RowsById(orders, o.id) : r.total_amount = SumRows(rows)
C9_Witness ==
  \E p \in Procs :
    /\ C9_case(p) /\ op[p].items = ItemKinds
    /\ \E o \in outcome[p].value : RowsById(orders, o.id) # {}

\* ---------------------------------------------------------------- C10
\* C10: once cancelOrder(id) has completed for an order that existed, no order row
\* and no item row of id remains, whatever runs later, and a getOrderById(id)
\* called afterwards returns absent.
C10_CancelRemoves ==
  /\ \A id \in cancelled : RowsById(orders, id) = {} /\ ItemsOf(items, id) = {}
  /\ \A p \in Procs :
       op[p].name = "getOrderById" /\ op[p].afterCancel /\ outcome[p].kind = "returned"
         => outcome[p].value = {}
C10_Witness ==
  \E p \in Procs :
    /\ op[p].name = "getOrderById" /\ op[p].afterCancel
    /\ Done(p) /\ outcome[p].kind = "returned"

\* ---------------------------------------------------------------- C11
\* C11: a cancelOrder(id) called for an existing order whose two DELETE statements
\* both succeeded has, by the time it completes, invoked sendOrderCancellation
\* (whose first step is the address lookup for the order's user).
C11_case(p) ==
  /\ op[p].name = "cancelOrder" /\ op[p].existed /\ Done(p)
  /\ Succeeded(p, "DELETE order_items") /\ Succeeded(p, "DELETE orders")
C11_CancellationDispatched ==
  \A p \in Procs : C11_case(p) => Issued(p, "fetchUserEmail")

\* ---------------------------------------------------------------- C12
\* C12 as stated: a completed cancelOrder never raised, whichever of the item
\* DELETE, the order DELETE, the order lookup or the cancellation send failed.
C12_NeverPropagates ==
  \A p \in Procs : op[p].name = "cancelOrder" /\ Done(p) => outcome[p].kind = "returned"

\* C12 amended: cancelOrder raises exactly when the item DELETE or the order DELETE
\* failed, and then with that statement's error; a failure of the order lookup, of
\* the address lookup or of the cancellation send is swallowed and cancelOrder
\* completes normally.
C12_DeleteFailed(p) == Failed(p, "DELETE order_items") \/ Failed(p, "DELETE orders")
C12_SwallowedFailed(p) ==
  Failed(p, "SELECT orders") \/ Failed(p, "fetchUserEmail") \/ Failed(p, "sendEmail")
C12_PropagatesOnlyDeletes ==
  \A p \in Procs : op[p].name = "cancelOrder" /\ Done(p) =>
    /\ outcome[p].kind = "raised" <=> C12_DeleteFailed(p)
    /\ Failed(p, "DELETE order_items") => outcome[p].err = "DELETE order_items failed"
    /\ Failed(p, "DELETE orders") => outcome[p].err = "DELETE orders failed"
    /\ C12_SwallowedFailed(p) => outcome[p] = Returned({})
C12_Witness ==
  \E p, q \in Procs :
    /\ op[p].name = "cancelOrder" /\ Done(p) /\ Failed(p, "DELETE orders")
    /\ op[q].name = "cancelOrder" /\ Done(q) /\ Failed(q, "SELECT orders")

\* ---------------------------------------------------------------- C13
\* C13: sendBulkNotifications never raises; it completes only after every
\* recipient's promise has settled, and the counts it reports are successful = the
\* recipients whose lookup and send both succeeded, failed = the others, so that
\* successful + failed = the number of recipients.
BulkOk == { i \in 1..Len(userIds) :
            BSucceeded(i, "fetchUserEmail") /\ BSucceeded(i, "sendEmail") }
C13_BulkReport ==
  /\ bOutcome.kind # "raised"
  /\ bPc = "done" =>
       /\ bOutcome = Returned({})
       /\ \A i \in 1..Len(userIds) : Settled(i)
       /\ report.successful = Cardinality(BulkOk)
       /\ report.failed = Len(userIds) - Cardinality(BulkOk)
       /\ report.successful + report.failed = Len(userIds)
\* Five recipients, two of whose lookups failed: 3 and 2.
C13_Witness ==
  /\ bPc = "done" /\ Len(userIds) = 5
  /\ Cardinality({ i \in 1..5 : BFailed(i, "fetchUserEmail") }) = 2
  /\ report = [successful |-> 3, failed |-> 2]

\* ---------------------------------------------------------------- C14
\* C14: in sendBulkNotifications a recipient's sendEmail is called exactly once if
\* its own lookup succeeded and never otherwise, whatever happened to the other
\* recipients; a recipient's promise rejects only for a failure of its own lookup
\* or send.
C14_PerRecipientIsolation ==
  \A i \in 1..Len(userIds) :
    /\ sends[i] = (IF BSucceeded(i, "fetchUserEmail") THEN 1 ELSE 0)
    /\ task[i] = "rejected" <=> BFailed(i, "fetchUserEmail") \/ BFailed(i, "sendEmail")
    /\ task[i] = "fulfilled" <=> BSucceeded(i, "sendEmail")
\* One recipient's send went out once and succeeded in a call where another
\* recipient's lookup and a third one's send failed.
C14_Witness ==
  \E i, j, k \in 1..Len(userIds) :
    /\ BFailed(i, "fetchUserEmail") /\ BFailed(j, "sendEmail")
    /\ task[k] = "fulfilled" /\ sends[k] = 1 /\ bPc = "done"

\* ---------------------------------------------------------------- C15
\* C15: a sendPasswordReset whose sendEmail failed raises to its caller the very
\* error sendEmail failed with, and one that completes normally had its sendEmail
\* succeed.
NError(c, s) == { nTrace[c][i].error : i \in { k \in 1..Len(nTrace[c]) : nTrace[c][k].stmt = s } }
C15_case(c) == nOp[c] = "sendPasswordReset" /\ nPc[c] = "done"
C15_PasswordResetPropagates ==
  \A c \in Callers : C15_case(c) =>
    /\ NIssued(c, "sendEmail") /\ ~NIssued(c, "fetchUserEmail")
    /\ NFailed(c, "sendEmail") => nOutcome[c].kind = "raised"
    /\ nOutcome[c].kind = "raised" => NError(c, "sendEmail") = {nOutcome[c].err}
    /\ nOutcome[c].kind = "returned" => NError(c, "sendEmail") = {"none"}
    /\ nOutcome[c].kind \in {"raised", "returned"}
C15_Witness ==
  \E c, d \in Callers :
    /\ C15_case(c) /\ nOutcome[c] = Raised("sendEmail timed out")
    /\ C15_case(d) /\ nOutcome[d] = Raised("sendEmail failed")

\* ---------------------------------------------------------------- C16
\* C16: sendWelcomeEmail never raises: whether the lookup or the send failed it
\* completes normally, and after a failed lookup no sendEmail is issued.
C16_case(c) == nOp[c] = "sendWelcomeEmail"
C16_WelcomeNeverRaises ==
  \A c \in Callers : C16_case(c) =>
    /\ nOutcome[c].kind # "raised"
    /\ nPc[c] = "done" => nOutcome[c] = Returned({})
    /\ NFailed(c, "fetchUserEmail") => ~NIssued(c, "sendEmail") /\ nPc[c] = "done"
    /\ NFailed(c, "sendEmail") => nPc[c] = "done"
C16_Witness ==
  \E c, d \in Callers :
    /\ C16_case(c) /\ nPc[c] = "done" /\ NFailed(c, "fetchUserEmail")
    /\ C16_case(d) /\ nPc[d] = "done" /\ NFailed(d, "sendEmail")

\* ---------------------------------------------------------------- C17
\* C17: inside createOrder and cancelOrder, sendOrderConfirmation and
\* sendOrderCancellation raise exactly when their lookup or their send failed, what
\* they raise is their fixed normalized error whichever step failed, and the
\* operation's catch block keeps it from the operation's caller.
NotificationFailed(p) == Failed(p, "fetchUserEmail") \/ Failed(p, "sendEmail")
NotificationErrors ==
  {"Failed to send order confirmation", "Order cancellation notification failed",
   "fetchUserEmail failed", "sendEmail failed"} \cup DeliveryErrors
C17_NormalizedAndCaught ==
  \A p \in Procs :
    /\ Creating(p) =>
         /\ NotificationFailed(p) <=> caught[p] # "none"
         /\ caught[p] \in {"none", "Failed to send order confirmation"}
    /\ op[p].name = "cancelOrder" =>
         /\ NotificationFailed(p) <=> caught[p] \notin {"none", "SELECT orders failed"}
         /\ caught[p] \in {"none", "SELECT orders failed",
                            "Order cancellation notification failed"}
    /\ outcome[p].err \notin NotificationErrors
    /\ NotificationFailed(p) /\ Done(p) /\ outcome[p].kind = "raised"
         => outcome[p].err \in {"COMMIT failed", "ROLLBACK failed"}
C17_Witness ==
  \E p, q \in Procs :
    /\ Creating(p) /\ Done(p) /\ outcome[p].kind = "returned"
    /\ Failed(p, "sendEmail") /\ caught[p] = "Failed to send order confirmation"
    /\ op[q].name = "cancelOrder" /\ Done(q) /\ outcome[q].kind = "returned"
    /\ Failed(q, "fetchUserEmail") /\ caught[q] = "Order cancellation notification failed"

\* ---------------------------------------------------------------- C18
\* C18: no step lowers the updated_at of an order row, and a markOrderPaid(id)
\* that returns for an order that exists, whatever its status, leaves and returns
\* the row with status paid and an updated_at not earlier than the one it had.
C18_markOrderPaidStep(p) ==
  /\ pc[p] = "q_query" /\ op[p].name = "markOrderPaid"
  /\ outcome'[p].kind = "returned"
C18_step ==
  /\ \A o \in orders : \A n \in orders' : o.id = n.id => n.updated_at >= o.updated_at
  /\ \A p \in Procs : C18_markOrderPaidStep(p) =>
       \A o \in RowsById(orders, op[p].orderId) :
         /\ RowsById(orders', o.id) = outcome'[p].value
         /\ \E n \in outcome'[p].value :
              n.status = "paid" /\ n.updated_at >= o.updated_at /\ n.paid_at # {}
C18_UpdatedAtMonotone == [][C18_step]_vars
\* markOrderPaid returned the paid row of an order that fulfillOrder had returned
\* as fulfilled at a later timestamp than its creation.
C18_Witness ==
  \E p, q \in Procs :
    /\ op[q].name = "fulfillOrder" /\ Done(q)
    /\ op[p].name = "markOrderPaid" /\ Done(p) /\ op[p].orderId = op[q].orderId
    /\ \E f \in outcome[q].value : f.status = "fulfilled" /\ f.updated_at = MaxClock
    /\ outcome[p].value # {} /\ outcome[p].value = RowsById(orders, op[p].orderId)

\* ---------------------------------------------------------------- C19
\* C19: an updateOrderStatus(id, target) whose UPDATE the database executed
\* returns, and if the order existed it leaves and returns the row with status =
\* target whatever status the row had: there is no guard on the transition.
C19_updateStep(p) ==
  /\ pc[p] = "q_query" /\ op[p].name = "updateOrderStatus" /\ pc'[p] = "done"
  /\ trace'[p][Len(trace'[p])].ok
C19_step ==
  \A p \in Procs : C19_updateStep(p) =>
    /\ outcome'[p].kind = "returned"
    /\ \A o \in RowsById(orders, op[p].orderId) :
         /\ RowsById(orders', o.id) = outcome'[p].value
         /\ \E n \in outcome'[p].value : n.status = op[p].status
         /\ \A n \in outcome'[p].value : n.status = op[p].status
C19_NoTransitionGuard == [][C19_step]_vars
\* Fulfilled -> Pending: updateOrderStatus(id, "pending") returned the pending row
\* of an order that fulfillOrder had returned as fulfilled.
C19_Witness ==
  \E p, q \in Procs :
    /\ op[q].name = "fulfillOrder" /\ Done(q)
    /\ op[p].name = "updateOrderStatus" /\ Done(p) /\ op[p].orderId = op[q].orderId
    /\ op[p].status = "pending"
    /\ \E f \in outcome[q].value : f.status = "fulfilled"
    /\ \E n \in outcome[p].value :
         n.status = "pending" /\ RowsById(orders, op[p].orderId) = {n}

\* ---------------------------------------------------------------- C20
\* C20: every order row is created with status pending, and the status of every
\* committed order row is one of pending, paid, fulfilled, whatever requests the
\* routing layer has passed on, PUT /orders/:id/status with any non-empty status
\* included.
C20_StatusDomain ==
  /\ \A c \in Conns : \A o \in txn[c].orders : o.status = "pending"
  /\ \A o \in orders : o.status \in {"pending", "paid", "fulfilled"}

\* ---------------------------------------------------------------- C21
\* C21: getOrderById, getOrdersByUser, getOrderItems and calculateOrderTotal leave
\* the database as it was, so that two getOrderById(id) calls with no write in
\* between return the same result: both absent, or the same row field by field.
ReadOps == {"getOrderById", "getOrdersByUser", "getOrderItems", "calculateOrderTotal"}
C21_case(p, q) ==
  /\ p # q /\ op[p].name = "getOrderById" /\ op[q].name = "getOrderById"
  /\ op[p].orderId = op[q].orderId
  /\ Done(p) /\ Done(q) /\ outcome[p].kind = "returned" /\ outcome[q].kind = "returned"
C21_ReadIdempotence ==
  /\ [orders |-> orders, items |-> items] \in {EmptyDb, SeededDb}
  /\ nextOrderId = Cardinality(orders) + 1 /\ nextItemId = Cardinality(items) + 1
  /\ clock = 0 /\ \A c \in Conns : txn[c] = NoTxn
  /\ \A p, q \in Procs : C21_case(p, q) =>
       /\ outcome[p].value = outcome[q].value
       /\ outcome[p].value = RowsById(orders, op[p].orderId)
C21_Witness ==
  /\ \E p, q \in Procs : C21_case(p, q) /\ outcome[p].value # {}
  /\ \A p \in Procs : op[p].name \in ReadOps

\* ---------------------------------------------------------------- C22
\* C22: every item row written through POST /orders (validateOrderData, then
\* createOrder) has quantity > 0 and price >= 0, and a body with an item of
\* quantity <= 0 or price < 0 is rejected before any statement is issued.
BadItem(item) == item.quantity <= 0 \/ item.price < 0
C22_ItemFields ==
  /\ \A r \in items \cup UNION { txn[c].items : c \in Conns } :
       r.quantity > 0 /\ r.price >= 0
  /\ \A p \in Procs :
       (\E i \in 1..Len(op[p].items) : BadItem(op[p].items[i]))
         => outcome[p].kind = "rejected" /\ trace[p] = <<>>

\* ---------------------------------------------------------------- C23
\* C23: a step of updateOrderStatus, markOrderPaid or fulfillOrder changes nothing
\* but status, updated_at and paid_at of the order row it addresses: that row
\* keeps its total_amount, user_id and created_at, every other order row and every
\* item row stays as it is, and no row appears or disappears.
StatusOps == {"updateOrderStatus", "markOrderPaid", "fulfillOrder"}
C23_statusStep(p) == pc[p] = "q_query" /\ op[p].name \in StatusOps /\ pc'[p] = "done"
C23_step ==
  \A p \in Procs : C23_statusStep(p) =>
    /\ items' = items /\ txn' = txn
    /\ nextOrderId' = nextOrderId /\ nextItemId' = nextItemId
    /\ {o.id : o \in orders'} = {o.id : o \in orders}
    /\ Cardinality(orders') = Cardinality(orders)
    /\ \A o \in orders :
         IF o.id = op[p].orderId
           THEN \E n \in orders' :
                  /\ n.id = o.id /\ n.total_amount = o.total_amount
                  /\ n.user_id = o.user_id /\ n.created_at = o.created_at
           ELSE o \in orders'
C23_StatusFrame == [][C23_step]_vars
\* A status operation returned the changed row of order 1 while a second order and
\* the items of both are committed and the second order is as it was created.
C23_Witness ==
  \E p \in Procs :
    /\ op[p].name \in StatusOps /\ Done(p) /\ op[p].orderId = 1
    /\ \E n \in outcome[p].value : n.status # "pending" /\ n \in orders
    /\ \E o \in orders : o.id # 1 /\ o.status = "pending" /\ ItemsOf(items, o.id) # {}
    /\ ItemsOf(items, 1) # {}

\* ---------------------------------------------------------------- C24
\* C24: in every committed state, what calculateOrderTotal(id) computes from the
\* item rows equals the stored total_amount of every order row, also while a
\* cancelOrder(id) is between its two DELETE statements or has had its second
\* DELETE fail.
C24_StoredEqualsLive ==
  \A o \in orders : total(items, o.id) = o.total_amount

\* ---------------------------------------------------------------- C25
\* C25: createOrder works on one connection, and the statements it has issued are,
\* in this order, BEGIN, the INSERT of the order row (status pending, computed
\* total), one INSERT per item in input order, COMMIT, each issued after the one
\* before it succeeded (a failed one is followed by ROLLBACK only); a createOrder
\* that returns for n items has committed exactly one new order row and exactly n
\* new item rows that reference it.
IsDbStmt(e) == e.stmt \in DbStmts
DbTrace(p) == SelectSeq(trace[p], IsDbStmt)
Script(n) ==
  <<"BEGIN", "INSERT orders">> \o [i \in 1..n |-> "INSERT order_items"] \o <<"COMMIT">>
C25_InOrder(t, n) ==
  \A i \in 1..Len(t) :
    IF t[i].stmt = "ROLLBACK"
      THEN i = Len(t) /\ i > 1 /\ ~t[i - 1].ok
      ELSE /\ i <= Len(Script(n)) /\ t[i].stmt = Script(n)[i]
           /\ i > 1 => t[i - 1].ok
C25_StatementOrder ==
  \A p \in Procs : Creating(p) =>
    LET n == Len(op[p].items) IN
    /\ acquires[p] <= 1 /\ Cardinality(held[p]) = acquires[p] - releases[p]
    /\ trace[p] # <<>> => acquires[p] = 1
    /\ C25_InOrder(DbTrace(p), n)
    /\ \A o \in order[p] :
         /\ o.status = "pending" /\ o.total_amount = totalAmount(op[p].items)
         /\ \A c \in held[p] :
              ItemSeq(ItemsOf(txn[c].items, o.id)) = SubSeq(op[p].items, 1, idx[p] - 1)
    /\ Done(p) /\ outcome[p].kind = "returned" =>
         /\ [s \in 1..Len(DbTrace(p)) |-> DbTrace(p)[s].stmt] = Script(n)
         /\ outcome[p].value = order[p] /\ Cardinality(order[p]) = 1
         /\ \A o \in outcome[p].value :
              /\ o.id \in everOrders
              /\ \A q \in Procs \ {p} : \A r \in order[q] : Creating(q) => r.id # o.id
              /\ Cardinality(ItemsOf(everItems, o.id)) = n
              /\ ItemSeq(ItemsOf(everItems, o.id)) = op[p].items
C25_Witness ==
  \E p \in Procs :
    /\ Creating(p) /\ Done(p) /\ outcome[p].kind = "returned"
    /\ Len(op[p].items) = MaxItems
    /\ \E o \in outcome[p].value : Cardinality(ItemsOf(items, o.id)) = MaxItems

\* ---------------------------------------------------------------- C26
\* C26: an updateOrderStatus, markOrderPaid or fulfillOrder whose id has no order
\* row (never created, or cancelled) writes nothing: the tables stay as they are,
\* no row is created, and when its UPDATE executed the operation returns the
\* absent result instead of raising; no step brings back a row of a cancelled id.
C26_absentStep(p) ==
  /\ pc[p] = "q_query" /\ op[p].name \in StatusOps /\ pc'[p] = "done"
  /\ RowsById(orders, op[p].orderId) = {}
C26_step ==
  /\ \A p \in Procs : C26_absentStep(p) =>
       /\ orders' = orders /\ items' = items /\ txn' = txn
       /\ nextOrderId' = nextOrderId /\ nextItemId' = nextItemId
       /\ IF trace'[p][Len(trace'[p])].ok
            THEN outcome'[p] = Returned({})
            ELSE outcome'[p] = Raised("UPDATE orders failed")
  /\ \A id \in cancelled : RowsById(orders', id) = {}
C26_AbsentOrder == [][C26_step]_vars
\* A status operation called for a cancelled order returned absent.
C26_Witness ==
  \E p \in Procs :
    /\ op[p].name \in StatusOps /\ op[p].afterCancel /\ Done(p)
    /\ Succeeded(p, "UPDATE orders") /\ outcome[p] = Returned({})
    /\ RowsById(orders, op[p].orderId) = {}

\* ---------------------------------------------------------------- C27
\* C27: when a createOrder has ended, every order whose confirmation
\* sendOrderConfirmation delivered is committed together with its items; no
\* confirmation was delivered for an order whose transaction was rolled back.
C27_NoPhantomConfirmation ==
  \A p \in Procs : Creating(p) /\ Done(p) =>
    \A o \in order[p] : o.id \in delivered =>
      /\ o.id \in everOrders
      /\ Cardinality(ItemsOf(everItems, o.id)) = Len(op[p].items)

\* ---------------------------------------------------------------- C28
\* C28: no operation asks the pool for a connection while it holds one, and when
\* every statement and notification call ends and the pool grants its waiting
\* callers fairly, every operation that was called completes, for a pool of one
\* connection as for a larger one.
C28_OneAtATime ==
  \A p \in Procs :
    /\ Cardinality(held[p]) <= 1
    /\ pc[p] \in ConnectPcs => held[p] = {}
C28_PoolProgress ==
  /\ []C28_OneAtATime
  /\ \A p \in Procs : (pc[p] # "idle") ~> (pc[p] = "done")
\* On a pool of one connection a cancelOrder waits for its second connection
\* while a createOrder holds the connection.
C28_Witness ==
  \E p, q \in Procs :
    /\ poolSize = 1 /\ poolIdle = {}
    /\ op[p].name = "cancelOrder" /\ pc[p] = "cx_order_connect"
    /\ op[q].name = "createOrder" /\ pc[q] \in HoldingPcs

====
